---- MODULE Spec2Model ----
(***************************************************************************)
(* A model of package eventbus (src/eventbus.go): the process-wide table   *)
(* handlers, the RWMutex mu, the id counter subscriberId, and the generic  *)
(* entry points Subscribe, Unsubscribe, Publish and PublishAsync, called   *)
(* concurrently by the goroutines of Procs.                                *)
(***************************************************************************)
EXTENDS Integers, Sequences, FiniteSets, TLC

(* ------------------------------ bounds --------------------------------- *)
\* Subscribe is called at most MaxSubs times (caps the uint64 counter
\* subscriberId far below 2^64, so its wrap-around is out of reach).
MaxSubs == 2
\* PublishAsync is called at most MaxAsync times (caps the goroutines spawned).
MaxAsync == 1

(* --------------------------- types and values -------------------------- *)
Procs == {"g1", "g2"}
None == "none"

\* Type arguments used at the call sites: one concrete (struct) type and two
\* interface types that the concrete type implements.
Concrete == {"A"}
Interfaces == {"I", "J"}
Types == Concrete \cup Interfaces

\* reflect.TypeOf(nil): the nil reflect.Type, a legal map key.
NilType == "niltype"

\* The dynamic types a value of declared type T can carry: a value of a concrete
\* type is of that type; an interface value is nil or holds a concrete value.
DynTypes(T) == IF T \in Concrete THEN {T} ELSE {NilType} \cup Concrete

\* reflect.TypeOf(*new(T)): the zero value of T boxed into an empty interface.
\* The zero value of an interface type is nil, whose reflect.Type is nil.
TypeOfZero(T) == IF T \in Concrete THEN T ELSE NilType

\* reflect.TypeOf(event): the dynamic type of the value boxed into `any`.
TypeOfEvent(T, dyn) == IF T \in Concrete THEN T ELSE dyn

\* A Handler[T] value: nil, or an object whose OnEvent method takes a T.
NilHandler == [impl |-> None]
HandlerFor(T) == [impl |-> T]
\* The arguments Subscribe[T] accepts (its parameter has type Handler[T]).
HandlerArgs(T) == {HandlerFor(T), NilHandler}

\* h.handler.(Handler[T]): succeeds iff the stored value is non-nil and its
\* method set has OnEvent(T). (IsHandlerOfAny: a check for any handler at all.)
IsHandlerOfAny(h, T) == h.impl # None
IsHandlerOf(h, T) == h.impl = T

handlerEntry(id, h) == [id |-> id, handler |-> h]

(* ------------------------------- state --------------------------------- *)
VARIABLES
    handlers,      \* map[reflect.Type][]handlerEntry: a function on its key set
    subscriberId,  \* the id counter
    writer,        \* the goroutine that holds mu for writing or has announced
                   \* itself as the pending writer, or None
    readerCount,   \* number of read holds of mu
    pc,            \* where each goroutine is in its current call
    op,            \* the call each goroutine is in (NoOp when it is in none)
    tasks,         \* the goroutines spawned by PublishAsync
    nasync,        \* number of PublishAsync calls made
    issued,        \* history: the Subscribe calls that drew an id, in order
    removed        \* history: the (type, id) of each Unsubscribe that returned true

vars == <<handlers, subscriberId, writer, readerCount, pc, op, tasks, nasync,
          issued, removed>>

\* A call record: the call's name, type argument and arguments (h, sid, ev), its
\* locals (id, hs, i), its result (Subscribe's id, Unsubscribe's found, the
\* error ret of Publish and PublishAsync), and history kept for the properties:
\* inv, the entry ids it invoked or scheduled, in order; reg, the ids of the
\* subscriptions live for T when it did its lookup; call, the number of a PublishAsync call; seen,
\* the largest id any Subscribe had returned when this Subscribe was called.
\* must marks a call made through MustPublish or MustPublishAsync; outer holds
\* the Publish call whose handler made this call (empty for a top-level call).
NoOp == [name |-> None, T |-> None, h |-> NilHandler, sid |-> 0, ev |-> None,
         id |-> 0, hs |-> <<>>, i |-> 0, ret |-> None, found |-> FALSE,
         inv |-> <<>>, reg |-> <<>>, call |-> 0, seen |-> 0,
         must |-> FALSE, outer |-> <<>>]

Init ==
    /\ handlers = [k \in {} |-> <<>>]
    /\ subscriberId = 0
    /\ writer = None
    /\ readerCount = 0
    /\ pc = [p \in Procs |-> "idle"]
    /\ op = [p \in Procs |-> NoOp]
    /\ tasks = {}
    /\ nasync = 0
    /\ issued = <<>>
    /\ removed = <<>>

(* ------------------------------ helpers -------------------------------- *)
Max(S) == IF S = {} THEN 0 ELSE CHOOSE x \in S : \A y \in S : y <= x

Ids(es) == [k \in 1..Len(es) |-> es[k].id]
Range(f) == {f[k] : k \in DOMAIN f}

\* The ids currently stored in the table, under any key.
StoredIds == UNION {Range(Ids(handlers[k])) : k \in DOMAIN handlers}

\* The ids of the live subscriptions made with type argument T, in
\* subscription order.
RegisteredFor(T) ==
    Ids(SelectSeq(issued, LAMBDA r : r.T = T /\ r.id \in StoredIds))

\* The entries stored in the table, under any key.
StoredEntries == UNION {Range(handlers[k]) : k \in DOMAIN handlers}

\* The type argument of the Subscribe call that drew id.
SubscribedType(id) == (CHOOSE r \in Range(issued) : r.id = id).T

\* The ids that a Subscribe call has already returned to its caller.
ReturnedIds ==
    Range(Ids(issued)) \ {op[q].id : q \in {r \in Procs :
        op[r].name = "Subscribe" /\ pc[r] \in {"sub_append", "Unlock"}}}

\* Subscribe calls made so far: ids drawn plus calls that have not drawn yet.
SubsStarted ==
    subscriberId + Cardinality({q \in Procs : op[q].name = "Subscribe"
                                   /\ pc[q] \in {"Lock", "LockWait", "sub_gen"}})

(* ------------------------------ sync.RWMutex --------------------------- *)
\* RLock blocks while a writer holds mu or is pending. (CanRLockAlways: a read
\* section entered without regard to writers.)
CanRLockAlways == TRUE
CanRLock == writer = None

\* Lock first becomes the one pending writer (blocking new readers) ...
Lock(p) ==
    /\ pc[p] = "Lock"
    /\ writer = None
    /\ writer' = p
    /\ pc' = [pc EXCEPT ![p] = "LockWait"]
    /\ UNCHANGED <<handlers, subscriberId, readerCount, op, tasks, nasync,
                   issued, removed>>

\* ... and then waits until the active readers have left.
CanEnter == readerCount = 0

LockAcquired(p) ==
    /\ pc[p] = "LockWait"
    /\ writer = p
    /\ CanEnter
    /\ pc' = [pc EXCEPT ![p] = IF op[p].name = "Subscribe" THEN "sub_gen"
                                                          ELSE "unsub_scan"]
    /\ UNCHANGED <<handlers, subscriberId, writer, readerCount, op, tasks,
                   nasync, issued, removed>>

\* Where a call returns to: the check in MustPublish or MustPublishAsync, the
\* handler that made the call, or the goroutine's own code.
ReturnTo(p) ==
    IF op[p].must THEN "must_check"
    ELSE IF op[p].outer # <<>> THEN "in_handler" ELSE "idle"

\* The call the goroutine is in after the return.
CallerOp(p) ==
    IF op[p].must THEN op[p]
    ELSE IF op[p].outer # <<>> THEN op[p].outer[1] ELSE NoOp

\* defer mu.Unlock(): Subscribe returns op[p].id, Unsubscribe op[p].found.
Unlock(p) ==
    /\ pc[p] = "Unlock"
    /\ writer' = None
    /\ pc' = [pc EXCEPT ![p] = ReturnTo(p)]
    /\ op' = [op EXCEPT ![p] = CallerOp(p)]
    /\ UNCHANGED <<handlers, subscriberId, readerCount, tasks, nasync, issued,
                   removed>>

RLock(p) ==
    /\ pc[p] = "RLock"
    /\ CanRLock
    /\ readerCount' = readerCount + 1
    /\ pc' = [pc EXCEPT ![p] = "lookup"]
    /\ UNCHANGED <<handlers, subscriberId, writer, op, tasks, nasync, issued,
                   removed>>

\* defer mu.RUnlock(): Publish or PublishAsync returns op[p].ret to its caller.
RUnlock(p) ==
    /\ pc[p] = "RUnlock"
    /\ readerCount' = readerCount - 1
    /\ pc' = [pc EXCEPT ![p] = ReturnTo(p)]
    /\ op' = [op EXCEPT ![p] = CallerOp(p)]
    /\ UNCHANGED <<handlers, subscriberId, writer, tasks, nasync, issued,
                   removed>>

(* ------------------------------ Subscribe ------------------------------ *)
CallSubscribe(p, T, h) ==
    /\ pc[p] = "idle"
    /\ SubsStarted < MaxSubs
    /\ op' = [op EXCEPT ![p] = [NoOp EXCEPT !.name = "Subscribe", !.T = T,
                                            !.h = h, !.seen = Max(ReturnedIds)]]
    /\ pc' = [pc EXCEPT ![p] = "Lock"]
    /\ UNCHANGED <<handlers, subscriberId, writer, readerCount, tasks, nasync,
                   issued, removed>>

\* atomic.AddUint64(&subscriberId, 1) adds one to the counter and returns the
\* new value. (generateHandlerIdOld: the value before the addition.)
generateHandlerIdOld == subscriberId
generateHandlerId == subscriberId + 1

\* id := generateHandlerId()
SubscribeGenId(p) ==
    /\ pc[p] = "sub_gen"
    /\ subscriberId' = subscriberId + 1
    /\ op' = [op EXCEPT ![p].id = generateHandlerId]
    /\ pc' = [pc EXCEPT ![p] = "sub_append"]
    /\ UNCHANGED <<handlers, writer, readerCount, tasks, nasync, issued,
                   removed>>

\* handlers[eventType] = append(handlers[eventType], handlerEntry{...})
\* (AppendEntryInFront: the new entry is put before the old ones.)
AppendEntryInFront(tbl, key, e) ==
    (key :> (<<e>> \o (IF key \in DOMAIN tbl THEN tbl[key] ELSE <<>>))) @@ tbl
AppendEntry(tbl, key, e) ==
    (key :> Append(IF key \in DOMAIN tbl THEN tbl[key] ELSE <<>>, e)) @@ tbl

SubscribeAppend(p) ==
    /\ pc[p] = "sub_append"
    /\ handlers' = AppendEntry(handlers, TypeOfZero(op[p].T),
                               handlerEntry(op[p].id, op[p].h))
    /\ issued' = Append(issued, [id |-> op[p].id, T |-> op[p].T])
    /\ pc' = [pc EXCEPT ![p] = "Unlock"]
    /\ UNCHANGED <<subscriberId, writer, readerCount, op, tasks, nasync, removed>>

(* ----------------------------- Unsubscribe ----------------------------- *)
CallUnsubscribe(p, T, sid) ==
    /\ pc[p] = "idle"
    /\ op' = [op EXCEPT ![p] = [NoOp EXCEPT !.name = "Unsubscribe", !.T = T,
                                            !.sid = sid]]
    /\ pc' = [pc EXCEPT ![p] = "Lock"]
    /\ UNCHANGED <<handlers, subscriberId, writer, readerCount, tasks, nasync,
                   issued, removed>>

\* for i, h := range handler { if h.id == subscriptionID ...: the first index
\* whose entry has the id, or 0.
FindId(es, sid) ==
    IF \E k \in 1..Len(es) : es[k].id = sid
    THEN CHOOSE k \in 1..Len(es) :
             es[k].id = sid /\ \A j \in 1..(k - 1) : es[j].id # sid
    ELSE 0

\* append(handler[:i], handler[i+1:]...) copies the tail one place down inside
\* the backing array the map's slice still refers to, with its old length.
\* (ShiftDownNone: no copy at all, the sequence is left as it is.)
ShiftDownNone(es, i) == es
ShiftDown(es, i) ==
    [k \in 1..Len(es) |-> IF k < i THEN es[k]
                          ELSE IF k < Len(es) THEN es[k + 1] ELSE es[Len(es)]]

\* The lookup, the scan and, when the id is found, append's copy.
UnsubscribeScan(p) ==
    LET key == TypeOfZero(op[p].T)
        ok  == key \in DOMAIN handlers
        i   == IF ok THEN FindId(handlers[key], op[p].sid) ELSE 0
    IN  /\ pc[p] = "unsub_scan"
        /\ IF i = 0
           THEN /\ op' = [op EXCEPT ![p].found = FALSE]
                /\ pc' = [pc EXCEPT ![p] = "Unlock"]
                /\ UNCHANGED handlers
           ELSE /\ op' = [op EXCEPT ![p].i = i]
                /\ pc' = [pc EXCEPT ![p] = "unsub_store"]
                /\ handlers' = [handlers EXCEPT ![key] = ShiftDown(@, i)]
        /\ UNCHANGED <<subscriberId, writer, readerCount, tasks, nasync, issued,
                       removed>>

\* handlers[eventType] = <the slice append returned, one entry shorter>
UnsubscribeStore(p) ==
    LET key == TypeOfZero(op[p].T)
    IN  /\ pc[p] = "unsub_store"
        /\ handlers' = [handlers EXCEPT ![key] = SubSeq(@, 1, Len(@) - 1)]
        /\ op' = [op EXCEPT ![p].found = TRUE, ![p].i = 0]
        /\ removed' = Append(removed, [T |-> op[p].T, id |-> op[p].sid])
        /\ pc' = [pc EXCEPT ![p] = "Unlock"]
        /\ UNCHANGED <<subscriberId, writer, readerCount, tasks, nasync, issued>>

(* ------------------------ Publish and PublishAsync --------------------- *)
CallPublish(p, T, dyn) ==
    /\ pc[p] = "idle"
    /\ op' = [op EXCEPT ![p] = [NoOp EXCEPT !.name = "Publish", !.T = T,
                                            !.ev = dyn]]
    /\ pc' = [pc EXCEPT ![p] = "RLock"]
    /\ UNCHANGED <<handlers, subscriberId, writer, readerCount, tasks, nasync,
                   issued, removed>>

CallPublishAsync(p, T, dyn) ==
    /\ pc[p] = "idle"
    /\ nasync < MaxAsync
    /\ nasync' = nasync + 1
    /\ op' = [op EXCEPT ![p] = [NoOp EXCEPT !.name = "PublishAsync", !.T = T,
                                            !.ev = dyn, !.call = nasync + 1]]
    /\ pc' = [pc EXCEPT ![p] = "RLock"]
    /\ UNCHANGED <<handlers, subscriberId, writer, readerCount, tasks, issued,
                   removed>>

\* eventType := reflect.TypeOf(event); handler, ok := handlers[eventType]
LookupKey(T, dyn) == TypeOfEvent(T, dyn)

Lookup(p) ==
    LET key == LookupKey(op[p].T, op[p].ev)
    IN  /\ pc[p] = "lookup"
        /\ IF key \notin DOMAIN handlers
           THEN /\ op' = [op EXCEPT ![p].ret = "NoHandlers",
                                    ![p].reg = RegisteredFor(op[p].T)]
                /\ pc' = [pc EXCEPT ![p] = "RUnlock"]
           ELSE /\ op' = [op EXCEPT ![p].hs = handlers[key], ![p].i = 1,
                                    ![p].reg = RegisteredFor(op[p].T)]
                /\ pc' = [pc EXCEPT ![p] = "loop"]
        /\ UNCHANGED <<handlers, subscriberId, writer, readerCount, tasks,
                       nasync, issued, removed>>

\* One turn of Publish's loop: the end of the range, a failed type assertion,
\* or the call eventHandler.OnEvent(event).
LoopSync(p) ==
    /\ pc[p] = "loop"
    /\ op[p].name = "Publish"
    /\ IF op[p].i > Len(op[p].hs)
       THEN /\ op' = [op EXCEPT ![p].ret = "ok"]
            /\ pc' = [pc EXCEPT ![p] = "RUnlock"]
       ELSE IF ~IsHandlerOf(op[p].hs[op[p].i].handler, op[p].T)
       THEN /\ op' = [op EXCEPT ![p].ret = "HandlerTypeMismatch"]
            /\ pc' = [pc EXCEPT ![p] = "RUnlock"]
       ELSE /\ op' = [op EXCEPT ![p].inv = Append(@, op[p].hs[op[p].i].id)]
            /\ pc' = [pc EXCEPT ![p] = "in_handler"]
    /\ UNCHANGED <<handlers, subscriberId, writer, readerCount, tasks, nasync,
                   issued, removed>>

\* OnEvent returns to Publish's loop.
HandlerReturn(p) ==
    /\ pc[p] = "in_handler"
    /\ op' = [op EXCEPT ![p].i = @ + 1]
    /\ pc' = [pc EXCEPT ![p] = "loop"]
    /\ UNCHANGED <<handlers, subscriberId, writer, readerCount, tasks, nasync,
                   issued, removed>>

\* A goroutine started by `go eventHandler.OnEvent(event)`.
Task(p, e) == [call |-> op[p].call, id |-> e.id, handler |-> e.handler,
               T |-> op[p].T, ev |-> op[p].ev, st |-> "scheduled"]

\* The goroutines a PublishAsync call has spawned.
TasksOf(call) == {t \in tasks : t.call = call}

\* When PublishAsync may go on after a go statement: at once, the statement
\* does not wait for the goroutine it started. (GoJoins: a call that waits for
\* the handlers it started.)
GoJoins(p) == \A t \in TasksOf(op[p].call) : t.st = "done"
GoContinues(p) == TRUE

\* (LoopAsyncCancels: a loop whose failure takes back the goroutines it started
\* that have not run yet.)
LoopAsyncCancels(p) ==
    /\ pc[p] = "loop"
    /\ op[p].name = "PublishAsync"
    /\ GoContinues(p)
    /\ IF op[p].i > Len(op[p].hs)
       THEN /\ op' = [op EXCEPT ![p].ret = "ok"]
            /\ pc' = [pc EXCEPT ![p] = "RUnlock"]
            /\ UNCHANGED tasks
       ELSE IF ~IsHandlerOf(op[p].hs[op[p].i].handler, op[p].T)
       THEN /\ op' = [op EXCEPT ![p].ret = "HandlerTypeMismatch"]
            /\ pc' = [pc EXCEPT ![p] = "RUnlock"]
            /\ tasks' = tasks \ {t \in TasksOf(op[p].call) : t.st = "scheduled"}
       ELSE /\ tasks' = tasks \cup {Task(p, op[p].hs[op[p].i])}
            /\ op' = [op EXCEPT ![p].inv = Append(@, op[p].hs[op[p].i].id),
                                ![p].i = @ + 1]
            /\ UNCHANGED pc
    /\ UNCHANGED <<handlers, subscriberId, writer, readerCount, nasync, issued,
                   removed>>

\* One turn of PublishAsync's loop: as Publish's, with the go statement.
LoopAsync(p) ==
    /\ pc[p] = "loop"
    /\ op[p].name = "PublishAsync"
    /\ GoContinues(p)
    /\ IF op[p].i > Len(op[p].hs)
       THEN /\ op' = [op EXCEPT ![p].ret = "ok"]
            /\ pc' = [pc EXCEPT ![p] = "RUnlock"]
            /\ UNCHANGED tasks
       ELSE IF ~IsHandlerOf(op[p].hs[op[p].i].handler, op[p].T)
       THEN /\ op' = [op EXCEPT ![p].ret = "HandlerTypeMismatch"]
            /\ pc' = [pc EXCEPT ![p] = "RUnlock"]
            /\ UNCHANGED tasks
       ELSE /\ tasks' = tasks \cup {Task(p, op[p].hs[op[p].i])}
            /\ op' = [op EXCEPT ![p].inv = Append(@, op[p].hs[op[p].i].id),
                                ![p].i = @ + 1]
            /\ UNCHANGED pc
    /\ UNCHANGED <<handlers, subscriberId, writer, readerCount, nasync, issued,
                   removed>>

\* The scheduler starts a spawned goroutine: OnEvent is entered.
TaskStart(t) ==
    /\ t.st = "scheduled"
    /\ tasks' = (tasks \ {t}) \cup {[t EXCEPT !.st = "running"]}
    /\ UNCHANGED <<handlers, subscriberId, writer, readerCount, pc, op, nasync,
                   issued, removed>>

\* OnEvent returns and the goroutine ends; a handler need not ever return.
TaskReturn(t) ==
    /\ t.st = "running"
    /\ tasks' = (tasks \ {t}) \cup {[t EXCEPT !.st = "done"]}
    /\ UNCHANGED <<handlers, subscriberId, writer, readerCount, pc, op, nasync,
                   issued, removed>>

(* ------------------- MustPublish and MustPublishAsync ------------------ *)
\* if err := Publish(event); ...: the wrapper calls Publish with its argument.
CallMustPublish(p, T, dyn) ==
    /\ pc[p] = "idle"
    /\ op' = [op EXCEPT ![p] = [NoOp EXCEPT !.name = "Publish", !.T = T,
                                            !.ev = dyn, !.must = TRUE]]
    /\ pc' = [pc EXCEPT ![p] = "RLock"]
    /\ UNCHANGED <<handlers, subscriberId, writer, readerCount, tasks, nasync,
                   issued, removed>>

\* if err := PublishAsync(event); ...
CallMustPublishAsync(p, T, dyn) ==
    /\ pc[p] = "idle"
    /\ nasync < MaxAsync
    /\ nasync' = nasync + 1
    /\ op' = [op EXCEPT ![p] = [NoOp EXCEPT !.name = "PublishAsync", !.T = T,
                                            !.ev = dyn, !.call = nasync + 1,
                                            !.must = TRUE]]
    /\ pc' = [pc EXCEPT ![p] = "RLock"]
    /\ UNCHANGED <<handlers, subscriberId, writer, readerCount, tasks, issued,
                   removed>>

\* err != nil: the error returned is one of the two the package makes.
\* (MustPanicsOnNoHandlers: a check for the no-handler error only.)
MustPanicsOnNoHandlers(ret) == ret = "NoHandlers"
MustPanics(ret) == ret # "ok"

\* ...; err != nil { panic(err) }: the wrapper panics with the error, or falls
\* off its end and returns.
MustCheck(p) ==
    /\ pc[p] = "must_check"
    /\ IF MustPanics(op[p].ret)
       THEN /\ pc' = [pc EXCEPT ![p] = "panicked"]
            /\ UNCHANGED op
       ELSE /\ pc' = [pc EXCEPT ![p] = "idle"]
            /\ op' = [op EXCEPT ![p] = NoOp]
    /\ UNCHANGED <<handlers, subscriberId, writer, readerCount, tasks, nasync,
                   issued, removed>>

(* --------------------------- specification ----------------------------- *)
\* A goroutine makes a call, with a type argument from TT.
Call(p, TT) ==
    \/ \E T \in TT : \E h \in HandlerArgs(T) : CallSubscribe(p, T, h)
    \/ \E T \in TT, sid \in 1..MaxSubs : CallUnsubscribe(p, T, sid)
    \/ \E T \in TT : \E d \in DynTypes(T) : CallPublish(p, T, d)
    \/ \E T \in TT : \E d \in DynTypes(T) : CallPublishAsync(p, T, d)

\* A goroutine takes the next step of the call it is in.
Step(p) ==
    \/ Lock(p)
    \/ LockAcquired(p)
    \/ Unlock(p)
    \/ RLock(p)
    \/ RUnlock(p)
    \/ SubscribeGenId(p)
    \/ SubscribeAppend(p)
    \/ UnsubscribeScan(p)
    \/ UnsubscribeStore(p)
    \/ Lookup(p)
    \/ LoopSync(p)
    \/ HandlerReturn(p)
    \/ LoopAsync(p)

Next ==
    \/ \E p \in Procs : Call(p, Types)
    \/ \E p \in Procs : Step(p)
    \/ \E t \in tasks : TaskStart(t)
    \/ \E t \in tasks : TaskReturn(t)

Spec == Init /\ [][Next]_vars

(* ---------------------------- fair scheduling -------------------------- *)
\* The calls of one type only: the registry of a program with one event type.
NextConcrete ==
    \/ \E p \in Procs : Call(p, Concrete)
    \/ \E p \in Procs : Step(p)
    \/ \E t \in tasks : TaskStart(t)
    \/ \E t \in tasks : TaskReturn(t)

\* The Go scheduler runs every runnable goroutine, and sync.Mutex hands the
\* lock to a starving waiter, so a call's next step is taken if it is enabled
\* again and again (a handler that Publish calls is taken to return), and a
\* spawned goroutine is started. Nothing makes a caller call, and nothing makes
\* a handler running in a spawned goroutine return.
Fairness ==
    /\ \A p \in Procs : SF_vars(Step(p))
    /\ WF_vars(\E t \in tasks : TaskStart(t))

SpecConcrete == Init /\ [][NextConcrete]_vars

SpecLive == SpecConcrete /\ Fairness

(* ------------------------- the Must entry points ----------------------- *)
\* The calls of one type, made directly or through the Must wrappers. A
\* goroutine that panicked takes no further step here: what becomes of it (a
\* recover up its stack, or the end of the program) is its caller's business.
NextMust ==
    \/ NextConcrete
    \/ \E p \in Procs : \E T \in Concrete : \E d \in DynTypes(T) :
           CallMustPublish(p, T, d)
    \/ \E p \in Procs : \E T \in Concrete : \E d \in DynTypes(T) :
           CallMustPublishAsync(p, T, d)
    \/ \E p \in Procs : MustCheck(p)

SpecMust == Init /\ [][NextMust]_vars

(* ------------------- calls made from inside a handler ------------------ *)
\* A handler that Publish has called (eventHandler.OnEvent(event), run by the
\* publishing goroutine while Publish holds the read lock) calls Subscribe,
\* Unsubscribe or Publish itself. The call it makes runs the same code as any
\* other; when it returns, the goroutine is back in the handler. Handlers of
\* the inner Publish make no calls of their own.
HandlerCallsSubscribe(p, T, h) ==
    /\ pc[p] = "in_handler"
    /\ op[p].outer = <<>>
    /\ SubsStarted < MaxSubs
    /\ op' = [op EXCEPT ![p] = [NoOp EXCEPT !.name = "Subscribe", !.T = T,
                                            !.h = h, !.seen = Max(ReturnedIds),
                                            !.outer = <<op[p]>>]]
    /\ pc' = [pc EXCEPT ![p] = "Lock"]
    /\ UNCHANGED <<handlers, subscriberId, writer, readerCount, tasks, nasync,
                   issued, removed>>

HandlerCallsUnsubscribe(p, T, sid) ==
    /\ pc[p] = "in_handler"
    /\ op[p].outer = <<>>
    /\ op' = [op EXCEPT ![p] = [NoOp EXCEPT !.name = "Unsubscribe", !.T = T,
                                            !.sid = sid, !.outer = <<op[p]>>]]
    /\ pc' = [pc EXCEPT ![p] = "Lock"]
    /\ UNCHANGED <<handlers, subscriberId, writer, readerCount, tasks, nasync,
                   issued, removed>>

HandlerCallsPublish(p, T, dyn) ==
    /\ pc[p] = "in_handler"
    /\ op[p].outer = <<>>
    /\ op' = [op EXCEPT ![p] = [NoOp EXCEPT !.name = "Publish", !.T = T,
                                            !.ev = dyn, !.outer = <<op[p]>>]]
    /\ pc' = [pc EXCEPT ![p] = "RLock"]
    /\ UNCHANGED <<handlers, subscriberId, writer, readerCount, tasks, nasync,
                   issued, removed>>

\* The calls of one type, made by the goroutines and by the handlers they run.
NextReentrant ==
    \/ NextConcrete
    \/ \E p \in Procs : \E T \in Concrete : \E h \in HandlerArgs(T) :
           HandlerCallsSubscribe(p, T, h)
    \/ \E p \in Procs : \E T \in Concrete, sid \in 1..MaxSubs :
           HandlerCallsUnsubscribe(p, T, sid)
    \/ \E p \in Procs : \E T \in Concrete : \E d \in DynTypes(T) :
           HandlerCallsPublish(p, T, d)

SpecReentrant == Init /\ [][NextReentrant]_vars

(* ------------------------------ properties ----------------------------- *)
\* Where a goroutine holds mu: for reading, for writing.
ReadSection == {"lookup", "loop", "in_handler", "RUnlock"}
WriteSection == {"sub_gen", "sub_append", "unsub_scan", "unsub_store", "Unlock"}

\* A Publish or PublishAsync call that is about to return op[p].ret.
PublishReturns(p) ==
    pc[p] = "RUnlock" /\ op[p].name \in {"Publish", "PublishAsync"}

\* The handler stored with a live id.
HandlerOfId(id) == (CHOOSE e \in StoredEntries : e.id = id).handler

\* C1: a Publish or PublishAsync for a type that has no live subscription when
\* the call does its lookup returns NoHandlers and invokes or schedules nothing.
C1_ZeroSubscribersNoHandlers ==
    \A p \in Procs :
        (PublishReturns(p) /\ op[p].reg = <<>>) =>
            (op[p].ret = "NoHandlers" /\ op[p].inv = <<>>)

\* C2: a synchronous Publish[T] whose type has live subscriptions h1..hn, all of
\* them handlers, invokes exactly h1..hn, in subscription order, once each, and
\* returns success.
C2_PublishInvokesAllInOrder ==
    \A p \in Procs :
        (/\ PublishReturns(p) /\ op[p].name = "Publish"
         /\ op[p].reg # <<>>
         /\ \A k \in 1..Len(op[p].reg) : HandlerOfId(op[p].reg[k]) # NilHandler)
        => (op[p].ret = "ok" /\ op[p].inv = op[p].reg)

\* C3: a PublishAsync[T] that returns success has spawned exactly one goroutine
\* for each handler whose subscription was live for T at its lookup, so that
\* each of them is invoked once.
C3_AsyncSchedulesEachOnce ==
    \A p \in Procs :
        (PublishReturns(p) /\ op[p].name = "PublishAsync" /\ op[p].ret = "ok") =>
            \A k \in 1..Len(op[p].reg) :
                HandlerOfId(op[p].reg[k]) # NilHandler =>
                    Cardinality({t \in TasksOf(op[p].call) :
                                     t.id = op[p].reg[k]}) = 1

\* mu is held only by callers inside Subscribe, Unsubscribe, Publish and
\* PublishAsync, never by or for a spawned goroutine.
LockHeldOnlyByCallers ==
    /\ readerCount = Cardinality({p \in Procs : pc[p] \in ReadSection})
    /\ writer # None => pc[writer] \in WriteSection \cup {"LockWait"}

\* C4: whether or not the handlers running in spawned goroutines ever return,
\* every call (PublishAsync included) returns, every spawned goroutine is
\* started, and mu is never held by or for a spawned goroutine.
C4_HungAsyncHandlerBlocksNothing ==
    /\ []LockHeldOnlyByCallers
    /\ \A p \in Procs : (pc[p] # "idle") ~> (pc[p] = "idle")
    /\ \A c \in 1..MaxAsync, id \in 1..MaxSubs :
           (\E t \in tasks : t.call = c /\ t.id = id /\ t.st = "scheduled")
           ~> (\E t \in tasks : t.call = c /\ t.id = id /\ t.st # "scheduled")

\* A handler is still running in its goroutine, another handler of the same
\* PublishAsync has run and returned, the publisher has returned, and a later
\* Unsubscribe is returning true.
C4_Witness ==
    \E t \in tasks :
        /\ t.st = "running"
        /\ \E u \in tasks : u.call = t.call /\ u.st = "done"
        /\ \E p \in Procs :
               /\ pc[p] = "Unlock" /\ op[p].name = "Unsubscribe" /\ op[p].found
               /\ \A q \in Procs \ {p} : pc[q] = "idle"

\* A Subscribe call that has drawn its id (it returns it on Unlock).
HasDrawn(p) == op[p].name = "Subscribe" /\ pc[p] \in {"sub_append", "Unlock"}

\* C5: the ids Subscribe draws are positive and pairwise distinct, whatever the
\* type arguments and whether or not earlier ids were unsubscribed, and a
\* Subscribe called after another Subscribe returned draws a larger id.
C5_IdsDistinctPositiveIncreasing ==
    /\ \A k \in 1..Len(issued) : issued[k].id > 0
    /\ \A j, k \in 1..Len(issued) : j # k => issued[j].id # issued[k].id
    /\ \A p \in Procs : HasDrawn(p) =>
           /\ op[p].id > 0
           /\ op[p].id > op[p].seen
           /\ pc[p] = "sub_append" => op[p].id \notin Range(Ids(issued))
           /\ \A q \in Procs \ {p} : HasDrawn(q) => op[q].id # op[p].id

\* A Subscribe called after the Subscribe of id 1 had returned, with another
\* type argument and after id 1 was unsubscribed, is returning id 2.
C5_Witness ==
    \E p \in Procs :
        /\ HasDrawn(p) /\ pc[p] = "Unlock"
        /\ op[p].seen = 1 /\ op[p].id = 2
        /\ issued[1].T # op[p].T
        /\ 1 \notin StoredIds

\* An Unsubscribe call that is about to return op[p].found.
UnsubscribeReturns(p) == pc[p] = "Unlock" /\ op[p].name = "Unsubscribe"

\* Subscribe[T] has put an entry with this id into the table.
IssuedFor(T, id) == [id |-> id, T |-> T] \in Range(issued)

\* How many Unsubscribe[T](id) calls have returned true.
TimesRemoved(T, id) ==
    Cardinality({k \in 1..Len(removed) : removed[k] = [T |-> T, id |-> id]})

\* C6: of the Unsubscribe[T](i) calls made for an id i that Subscribe[T]
\* issued, the first to take effect returns true and leaves no entry with id i
\* in the table, and every other one returns false.
C6_UnsubscribeTrueExactlyOnce ==
    \A p \in Procs :
        (UnsubscribeReturns(p) /\ IssuedFor(op[p].T, op[p].sid)) =>
            /\ TimesRemoved(op[p].T, op[p].sid) = 1
            /\ op[p].sid \notin StoredIds

\* C7: an Unsubscribe[T](i) for an id i that no Subscribe[T] issued never
\* changes the table (it never reaches the copy and the store) and returns
\* false.
C7_UnissuedIdLeavesTable ==
    \A p \in Procs :
        (/\ op[p].name = "Unsubscribe"
         /\ pc[p] \in {"unsub_store", "Unlock"}
         /\ ~IssuedFor(op[p].T, op[p].sid))
        => (pc[p] = "Unlock" /\ ~op[p].found)

\* C8: Publish[T] and PublishAsync[T] look up the key Subscribe[T] files under:
\* the sequence they find holds every live subscription of T, a call that
\* returns NoHandlers had none, and a call that returns success has invoked or
\* scheduled all of them.
C8_PublishUsesSubscribeKey ==
    \A p \in Procs :
        LET live == {id \in Range(op[p].reg) : HandlerOfId(id) # NilHandler}
        IN  /\ (pc[p] \in {"loop", "in_handler"}) =>
                   live \subseteq Range(Ids(op[p].hs))
            /\ (PublishReturns(p) /\ op[p].ret = "NoHandlers") => live = {}
            /\ (PublishReturns(p) /\ op[p].ret = "ok") =>
                   live \subseteq Range(op[p].inv)

\* C9: every handler invocation, in Publish's loop or in a goroutine spawned by
\* PublishAsync, is of an entry that Subscribe filed with the very type argument
\* of the publishing call.
C9_InvokedOnlyForSubscribedType ==
    /\ \A p \in Procs :
           op[p].name \in {"Publish", "PublishAsync"} =>
               \A k \in 1..Len(op[p].inv) : SubscribedType(op[p].inv[k]) = op[p].T
    /\ \A t \in tasks : SubscribedType(t.id) = t.T

\* A Publish[T] or PublishAsync[T] has found, under its key, a handler that was
\* subscribed for another type, and is returning HandlerTypeMismatch.
C9_Witness ==
    \E p \in Procs :
        /\ PublishReturns(p) /\ op[p].ret = "HandlerTypeMismatch"
        /\ op[p].hs[op[p].i].handler # NilHandler
        /\ SubscribedType(op[p].hs[op[p].i].id) # op[p].T

\* The ids of a sequence of entries are pairwise distinct.
DistinctIds(es) == \A j, k \in 1..Len(es) : j # k => es[j].id # es[k].id

\* C10: while a goroutine is inside the write section of Subscribe or
\* Unsubscribe no other goroutine is inside a read or write section, and the
\* sequence a Publish or PublishAsync works on is the one stored in the table,
\* never one that Unsubscribe has copied but not yet stored.
C10_WritersExcludeAll ==
    /\ \A p \in Procs : pc[p] \in WriteSection =>
           \A q \in Procs \ {p} : pc[q] \notin WriteSection \cup ReadSection
    /\ \A p \in Procs : pc[p] \in {"loop", "in_handler"} =>
           /\ op[p].hs = handlers[LookupKey(op[p].T, op[p].ev)]
           /\ DistinctIds(op[p].hs)

\* Two goroutines are inside the read sections of Publish or PublishAsync at
\* the same time, one of them in a handler, while the table holds entries.
C10_Witness ==
    \E p, q \in Procs :
        /\ p # q
        /\ pc[p] = "in_handler" /\ pc[q] \in {"loop", "in_handler"}
        /\ readerCount = 2

\* The two errors of the package.
Failures == {"NoHandlers", "HandlerTypeMismatch"}

\* C11: MustPublish and MustPublishAsync panic exactly when the Publish or
\* PublishAsync call they made returned one of the two errors; otherwise they
\* return. The wrapper itself invokes and schedules nothing and leaves the
\* table alone, and nothing but a wrapper's check panics.
C11_MustPanicsExactlyOnFailure ==
    [][\A p \in Procs :
          /\ (pc[p] = "must_check" /\ pc'[p] # "must_check") =>
                 /\ op[p].ret \in Failures \cup {"ok"}
                 /\ (pc'[p] = "panicked") <=> (op[p].ret \in Failures)
                 /\ (pc'[p] # "panicked") <=> (pc'[p] = "idle")
                 /\ tasks' = tasks /\ handlers' = handlers
          /\ (pc[p] = "RUnlock" /\ pc'[p] # "RUnlock" /\ op[p].must) =>
                 (pc'[p] = "must_check" /\ op'[p] = op[p])
          /\ (pc'[p] = "panicked") => (pc[p] \in {"must_check", "panicked"})
      ]_vars

\* MustPublishAsync has panicked with the mismatch error after its
\* PublishAsync had started a goroutine for an earlier entry.
C11_Witness ==
    \E p \in Procs :
        /\ pc[p] = "panicked" /\ op[p].name = "PublishAsync"
        /\ op[p].ret = "HandlerTypeMismatch"
        /\ TasksOf(op[p].call) # {}

\* The index of the first entry of es that is not a Handler[T], or 0.
FirstBad(es, T) ==
    IF \E k \in 1..Len(es) : ~IsHandlerOf(es[k].handler, T)
    THEN CHOOSE k \in 1..Len(es) :
             /\ ~IsHandlerOf(es[k].handler, T)
             /\ \A j \in 1..(k - 1) : IsHandlerOf(es[j].handler, T)
    ELSE 0

\* A Publish or PublishAsync that found an entry that is not a Handler[T], the
\* k-th of its sequence, returns HandlerTypeMismatch (and only then), has
\* invoked or started a goroutine for exactly the entries before the k-th, once
\* each and in order, and none for the k-th and later ones.
AbortsAtFirstBad ==
    \A p \in Procs : PublishReturns(p) =>
        LET k == FirstBad(op[p].hs, op[p].T)
        IN  /\ (op[p].ret = "HandlerTypeMismatch") <=> (k # 0)
            /\ k # 0 =>
                   /\ op[p].i = k
                   /\ op[p].inv = Ids(SubSeq(op[p].hs, 1, k - 1))
                   /\ op[p].name = "PublishAsync" =>
                          /\ \A j \in 1..(k - 1) :
                                 Cardinality({t \in TasksOf(op[p].call) :
                                     t.id = op[p].hs[j].id}) = 1
                          /\ \A j \in k..Len(op[p].hs) :
                                 \A t \in TasksOf(op[p].call) :
                                     t.id # op[p].hs[j].id

\* A spawned goroutine is never taken back, and it only moves on: from
\* scheduled to running (its one invocation of the handler) to done.
TasksOnlyAdvance ==
    \A t \in tasks : \E u \in tasks' :
        /\ [u EXCEPT !.st = t.st] = t
        /\ t.st = "running" => u.st \in {"running", "done"}
        /\ t.st = "done" => u.st = "done"

\* C12: when the k-th entry a Publish or PublishAsync finds is not a compatible
\* handler, the call fails with HandlerTypeMismatch, entries k and later are
\* neither invoked nor scheduled, and entries 1..k-1 have been invoked
\* (Publish) or stay scheduled and are each started once (PublishAsync): the
\* failure cancels nothing.
C12_MismatchAbortsKeepsEarlier ==
    /\ []AbortsAtFirstBad
    /\ [][TasksOnlyAdvance]_vars
    /\ \A c \in 1..MaxAsync, id \in 1..MaxSubs :
           (\E t \in tasks : t.call = c /\ t.id = id /\ t.st = "scheduled")
           ~> (\E t \in tasks : t.call = c /\ t.id = id /\ t.st = "running")

\* A PublishAsync is returning HandlerTypeMismatch for its second entry while
\* the goroutine it started for the first entry has not run yet.
C12_Witness ==
    \E p \in Procs :
        /\ PublishReturns(p) /\ op[p].name = "PublishAsync"
        /\ op[p].ret = "HandlerTypeMismatch" /\ op[p].i = 2
        /\ \E t \in TasksOf(op[p].call) : t.st = "scheduled"

\* C13: in every state reached through the typed entry points alone, with any
\* type arguments (interface types included), every entry under a key is a
\* handler compatible with every call that looks the key up, and no Publish or
\* PublishAsync returns HandlerTypeMismatch. (Entries that hold no handler at
\* all, filed by Subscribe[T](nil), are set aside: the statement is about the
\* handlers in the table.)
C13_TypedCallsNeverMismatch ==
    \A p \in Procs :
        /\ pc[p] \in {"loop", "in_handler", "RUnlock"} =>
               \A k \in 1..Len(op[p].hs) :
                   op[p].hs[k].handler # NilHandler =>
                       IsHandlerOf(op[p].hs[k].handler, op[p].T)
        /\ PublishReturns(p) =>
               (op[p].ret = "HandlerTypeMismatch" =>
                    op[p].hs[op[p].i].handler = NilHandler)

\* The sequence es without its k-th entry.
RemoveAt(es, k) == SubSeq(es, 1, k - 1) \o SubSeq(es, k + 1, Len(es))

\* The sequences under all keys but key are the same in the next state.
OtherKeysUnchanged(key) ==
    /\ DOMAIN handlers' = DOMAIN handlers
    /\ \A k \in DOMAIN handlers \ {key} : handlers'[k] = handlers[k]

\* The live subscriptions of all types but T are the same in the next state.
OtherTypesUnchanged(T) ==
    \A U \in Types \ {T} : RegisteredFor(U)' = RegisteredFor(U)

\* C14: the two steps of a successful Unsubscribe[T](i), the copy and the
\* store, together take exactly the entry with id i out of T's sequence: the
\* entries that remain are the old ones with their handlers, in their old order,
\* the sequences under the other keys do not change, and the live
\* subscriptions of every other type stay as they were.
C14_UnsubscribeRemovesExactlyOne ==
    [][\A p \in Procs :
          LET key == TypeOfZero(op[p].T)
          IN  /\ (pc[p] = "unsub_scan" /\ pc'[p] = "unsub_store") =>
                     /\ \E k \in 1..Len(handlers[key]) :
                            /\ handlers[key][k].id = op[p].sid
                            /\ SubSeq(handlers'[key], 1, Len(handlers[key]) - 1)
                                   = RemoveAt(handlers[key], k)
                     /\ Len(handlers'[key]) = Len(handlers[key])
                     /\ OtherKeysUnchanged(key)
                     /\ OtherTypesUnchanged(op[p].T)
              /\ (pc[p] = "unsub_store" /\ pc'[p] = "Unlock") =>
                     /\ handlers'[key]
                            = SubSeq(handlers[key], 1, Len(handlers[key]) - 1)
                     /\ op[p].sid \notin StoredIds'
                     /\ op'[p].found
                     /\ OtherKeysUnchanged(key)
                     /\ OtherTypesUnchanged(op[p].T)
      ]_vars

\* The sequence the table holds under key: empty when the key is absent.
SeqAt(tbl, key) == IF key \in DOMAIN tbl THEN tbl[key] ELSE <<>>

\* C15: Subscribe[T](h) has no failure path: it returns a positive id whose
\* entry is in the table. Its one change to the table, the append, makes T's
\* sequence the old sequence followed by the entry of the new id and h
\* (creating the key when it was absent); the sequence the table holds for
\* every other type is as it was.
C15_SubscribeOnlyAppends ==
    /\ [][\A p \in Procs :
             LET key == TypeOfZero(op[p].T)
             IN  /\ (pc[p] = "sub_append" /\ pc'[p] # "sub_append") =>
                        /\ pc'[p] = "Unlock"
                        /\ DOMAIN handlers' = DOMAIN handlers \cup {key}
                        /\ handlers'[key] =
                               Append(SeqAt(handlers, key),
                                      [id |-> op[p].id, handler |-> op[p].h])
                        /\ \A U \in Types \ {op[p].T} :
                               SeqAt(handlers', TypeOfZero(U))
                                   = SeqAt(handlers, TypeOfZero(U))
                 /\ (op[p].name = "Subscribe" /\ pc[p] # "sub_append"
                         /\ pc'[p] # pc[p]) => handlers' = handlers
         ]_vars
    /\ [](\A p \in Procs :
             (pc[p] = "Unlock" /\ op[p].name = "Subscribe") =>
                 /\ op[p].id > 0
                 /\ handlerEntry(op[p].id, op[p].h) \in StoredEntries)

\* A synchronous Publish that has done its lookup and has not yet left its loop.
InFanOut(p) == op[p].name = "Publish" /\ pc[p] \in {"loop", "in_handler"}

\* C16: a synchronous Publish[T] delivers to exactly the handlers subscribed for
\* T at the one instant of its lookup under the read lock (all of them unless
\* it stops at an entry that is no handler), and from then until it has
\* invoked the last of them no Subscribe or Unsubscribe, for any type, changes
\* the table.
C16_PublishSeesOneSnapshot ==
    /\ [](\A p \in Procs :
             (PublishReturns(p) /\ op[p].name = "Publish"
                 /\ op[p].ret # "HandlerTypeMismatch") =>
                 op[p].inv = SelectSeq(op[p].reg,
                                 LAMBDA id : HandlerOfId(id) # NilHandler))
    /\ [](\A p \in Procs : InFanOut(p) =>
             /\ RegisteredFor(op[p].T) = op[p].reg
             /\ \E n \in 0..Len(op[p].reg) : op[p].inv = SubSeq(op[p].reg, 1, n))
    /\ [][(\E p \in Procs : InFanOut(p)) => handlers' = handlers]_vars

\* C17: the registry never deadlocks: as long as some goroutine is inside a
\* call (its own, or one made by a handler it runs), some goroutine inside a
\* call can take its next step. This covers a handler that calls Subscribe,
\* Unsubscribe or Publish from inside a synchronous Publish, and calls made
\* while another caller waits for exclusive access.
C17_NeverDeadlocks ==
    (\E p \in Procs : pc[p] # "idle") => ENABLED (\E p \in Procs : Step(p))

\* The ids whose entry an Unsubscribe has taken out of the table.
RemovedIds == {removed[k].id : k \in 1..Len(removed)}

\* C18: once Unsubscribe has taken the entry of an id out of the table, no
\* Publish invokes it and no PublishAsync starts a goroutine for it: every
\* invocation and every go statement is for an id that no Unsubscribe has
\* removed. (What may still run afterwards are goroutines started before.)
C18_RemovedEntryNeverDispatched ==
    [][/\ \A p \in Procs :
             (/\ op[p].name \in {"Publish", "PublishAsync"}
              /\ pc[p] = "loop"
              /\ Len(op'[p].inv) > Len(op[p].inv)) =>
                 op'[p].inv[Len(op'[p].inv)] \notin RemovedIds
       /\ \A t \in tasks' \ tasks :
             t.st = "scheduled" => t.id \notin RemovedIds
      ]_vars

\* An id was unsubscribed after a PublishAsync had started a goroutine for it,
\* which has not run yet; a Publish made afterwards for the same type is
\* returning success, having invoked another entry and not the removed one.
C18_Witness ==
    \E p \in Procs :
        /\ PublishReturns(p) /\ op[p].name = "Publish" /\ op[p].ret = "ok"
        /\ op[p].inv # <<>>
        /\ \E t \in tasks :
               /\ t.T = op[p].T /\ t.st = "scheduled"
               /\ t.id \in RemovedIds
               /\ t.id \notin Range(op[p].inv)

\* The table as the program's statements leave it: while an Unsubscribe is
\* inside its assignment (the tail copied down, the shorter slice not yet
\* stored), the table with that slice stored.
StoredTable ==
    [k \in DOMAIN handlers |->
        IF \E p \in Procs : pc[p] = "unsub_store" /\ TypeOfZero(op[p].T) = k
        THEN SubSeq(handlers[k], 1, Len(handlers[k]) - 1)
        ELSE handlers[k]]

\* C19: in every reachable state the table holds each id in at most one
\* entry, over all keys; every id it holds is between 1 and the counter
\* subscriberId; and the ids of each sequence are strictly increasing.
C19_TableIdsUniqueBoundedIncreasing ==
    /\ \A k1, k2 \in DOMAIN StoredTable :
           \A j1 \in 1..Len(StoredTable[k1]), j2 \in 1..Len(StoredTable[k2]) :
               (k1 # k2 \/ j1 # j2) =>
                   StoredTable[k1][j1].id # StoredTable[k2][j2].id
    /\ \A k \in DOMAIN StoredTable : \A j \in 1..Len(StoredTable[k]) :
           /\ StoredTable[k][j].id >= 1
           /\ StoredTable[k][j].id <= subscriberId
    /\ \A k \in DOMAIN StoredTable : \A j \in 1..(Len(StoredTable[k]) - 1) :
           StoredTable[k][j].id < StoredTable[k][j + 1].id

\* The counter has reached its bound and the table holds two entries under one
\* key, put there by Subscribe calls with different type arguments.
C19_Witness ==
    /\ subscriberId = MaxSubs
    /\ \A p \in Procs : pc[p] # "unsub_store"
    /\ \E k \in DOMAIN handlers :
           /\ Len(handlers[k]) = 2
           /\ SubscribedType(handlers[k][1].id)
                  # SubscribedType(handlers[k][2].id)

====
